---- MODULE Spec2Model ----
(***************************************************************************)
(* A model of week8/pytorch_autoencoder.ipynb: the seeded global random    *)
(* generator, the DataLoader's batch sampler and prefetching workers, the  *)
(* AE module, the MSE criterion, the Adam optimizer, the training loop and *)
(* the evaluation cell.                                                    *)
(*                                                                         *)
(* Numbers.  A tensor of the notebook is modelled by one scalar per        *)
(* tensor: a sample is one pixel, a weight matrix one weight.  A scalar is *)
(* <<"fin", n>> for the integer n or <<"nan", 0>> for a non-finite float.  *)
(* Losses and gradients are kept multiplied by Scale, so that the mean     *)
(* over a batch of any size stays an integer.                              *)
(***************************************************************************)
EXTENDS Integers, Sequences, FiniteSets, TLC

(* ------------------------------ bounds -------------------------------- *)
MaxSize == 3        \* largest training set
MaxBatch == 2       \* largest batch_size
MaxEpochs == 2      \* largest number of epochs
SeedSpread == 2     \* seeds tried: seed .. seed + SeedSpread
TestSize == 11      \* size of the held-out set
LoaderSize == 5     \* largest dataset of the loader run with its workers
MaxWorkers == 2     \* most worker processes (the notebook asks for 4)

(* ------------------------- program constants -------------------------- *)
seed == 42
EvalBatch == 10

Seeds == seed..(seed + SeedSpread)

RECURSIVE Factorial(_)
Factorial(n) == IF n <= 1 THEN 1 ELSE n * Factorial(n - 1)

\* every batch length 1..MaxBatch divides Scale
Scale == Factorial(MaxBatch)

(* ------------------------------ scalars ------------------------------- *)
NaN == <<"nan", 0>>
None == <<"none", 0>>
Fin(n) == <<"fin", n>>
IsNaN(a) == a[1] = "nan"
IsNone(a) == a[1] = "none"
Num(a) == a[2]

Add(a, b) == IF IsNaN(a) \/ IsNaN(b) THEN NaN ELSE Fin(Num(a) + Num(b))
Sub(a, b) == IF IsNaN(a) \/ IsNaN(b) THEN NaN ELSE Fin(Num(a) - Num(b))
Mul(a, b) == IF IsNaN(a) \/ IsNaN(b) THEN NaN ELSE Fin(Num(a) * Num(b))
Sign(a) == IF IsNaN(a) THEN NaN
           ELSE IF Num(a) > 0 THEN Fin(1)
           ELSE IF Num(a) < 0 THEN Fin(-1) ELSE Fin(0)

\* torch.relu: max(x, 0), NaN stays NaN
Relu(a) == IF IsNaN(a) THEN NaN ELSE IF Num(a) > 0 THEN a ELSE Fin(0)

\* derivative of relu applied to an incoming gradient d: d where pre > 0,
\* 0 where pre <= 0; a NaN pre-activation is not <= 0 and lets d through
ReluBackward(pre, d) ==
    IF IsNaN(pre) THEN d ELSE IF Num(pre) > 0 THEN d ELSE Fin(0)

RECURSIVE SumSeq(_)
SumSeq(s) == IF s = <<>> THEN Fin(0) ELSE Add(Head(s), SumSeq(Tail(s)))

(* ------------------------ global random generator --------------------- *)
\* torch.manual_seed(seed): the generator's state is a function of the seed
ManualSeed(s) == (s * 12345 + 6789) % 65537
\* one draw advances the state (a linear congruential step); the state is
\* the number drawn
NextRng(x) == (x * 75 + 74) % 65537

RECURSIVE Shuffle(_, _, _)
\* Fisher-Yates over positions i .. 1 of p, one draw per position
Shuffle(p, i, x) ==
    IF i <= 1 THEN [perm |-> p, rng |-> x]
    ELSE LET j == (x % i) + 1
             q == [p EXCEPT ![i] = p[j], ![j] = p[i]]
         IN  Shuffle(q, i - 1, NextRng(x))

\* torch.randperm(n) from the global generator: a permutation of 0..n-1
RandPerm(x, n) == Shuffle([k \in 1..n |-> k - 1], n, x)

(* ------------------------------ sampler ------------------------------- *)
\* SequentialSampler / RandomSampler: the order of one pass over 0..n-1
SamplerOrder(shuffle, x, n) ==
    IF shuffle THEN RandPerm(x, n)
    ELSE [perm |-> [k \in 1..n |-> k - 1], rng |-> x]

RECURSIVE BatchSamplerDropLast(_, _, _)
\* a sampler that drops the short last batch (drop_last = True)
BatchSamplerDropLast(order, batch_size, batch) ==
    IF order = <<>> THEN <<>>
    ELSE LET b == Append(batch, Head(order))
         IN  IF Len(b) = batch_size
             THEN <<b>> \o BatchSamplerDropLast(Tail(order), batch_size, <<>>)
             ELSE BatchSamplerDropLast(Tail(order), batch_size, b)

RECURSIVE BatchSampler(_, _, _)
\* BatchSampler with drop_last = False: fill a batch up to batch_size,
\* yield it, and yield what is left at the end if it is not empty
BatchSampler(order, batch_size, batch) ==
    IF order = <<>>
    THEN IF Len(batch) > 0 THEN <<batch>> ELSE <<>>
    ELSE LET b == Append(batch, Head(order))
         IN  IF Len(b) = batch_size
             THEN <<b>> \o BatchSampler(Tail(order), batch_size, <<>>)
             ELSE BatchSampler(Tail(order), batch_size, b)

\* len(loader) with drop_last = False
LoaderLen(n, batch_size) == (n + batch_size - 1) \div batch_size

(* ------------------------------- model -------------------------------- *)
ParamNames == <<"W1", "b1", "W2", "b2", "W3", "b3", "W4", "b4">>
ParamSet == {ParamNames[i] : i \in 1..Len(ParamNames)}

RECURSIVE InitFrom(_, _, _)
\* nn.Linear.reset_parameters for each tensor in turn: one draw each,
\* uniform around zero
InitFrom(i, x, acc) ==
    IF i > Len(ParamNames) THEN [params |-> acc, rng |-> x]
    ELSE InitFrom(i + 1, NextRng(x),
                  [acc EXCEPT ![ParamNames[i]] = Fin((x % 7) - 3)])

\* AE(input_shape=784): the four Linear layers initialise themselves
AEInit(x) == InitFrom(1, x, [p \in ParamSet |-> Fin(0)])

Linear(x, w, b) == Add(Mul(x, w), b)

\* AE.forward on one sample, keeping what the backward pass needs
Forward(p, x) ==
    LET pre1 == Linear(x, p["W1"], p["b1"])
        a1   == Relu(pre1)
        pre2 == Linear(a1, p["W2"], p["b2"])
        code == Relu(pre2)
        pre3 == Linear(code, p["W3"], p["b3"])
        a3   == Relu(pre3)
        pre4 == Linear(a3, p["W4"], p["b4"])
        out  == Relu(pre4)
    IN  [x |-> x, pre1 |-> pre1, a1 |-> a1, pre2 |-> pre2, code |-> code,
         pre3 |-> pre3, a3 |-> a3, pre4 |-> pre4, out |-> out]

\* model(batch): the reconstruction of every sample of the batch
ForwardBatch(p, batch) == [i \in 1..Len(batch) |-> Forward(p, batch[i])]
Outputs(acts) == [i \in 1..Len(acts) |-> acts[i].out]

\* nn.MSELoss(): the mean of the squared differences (times Scale)
MSELoss(outs, targets) ==
    LET n  == Len(outs)
        sq == [i \in 1..n |-> Mul(Sub(outs[i], targets[i]),
                                  Sub(outs[i], targets[i]))]
    IN  Mul(SumSeq(sq), Fin(Scale \div n))

\* the gradient of the batch loss, through one sample's activations
SampleGrad(p, a, n) ==
    LET dout  == Mul(Sub(a.out, a.x), Fin(2 * (Scale \div n)))
        dpre4 == ReluBackward(a.pre4, dout)
        da3   == Mul(dpre4, p["W4"])
        dpre3 == ReluBackward(a.pre3, da3)
        dcode == Mul(dpre3, p["W3"])
        dpre2 == ReluBackward(a.pre2, dcode)
        da1   == Mul(dpre2, p["W2"])
        dpre1 == ReluBackward(a.pre1, da1)
    IN  [W4 |-> Mul(dpre4, a.a3),   b4 |-> dpre4,
         W3 |-> Mul(dpre3, a.code), b3 |-> dpre3,
         W2 |-> Mul(dpre2, a.a1),   b2 |-> dpre2,
         W1 |-> Mul(dpre1, a.x),    b1 |-> dpre1]

\* train_loss.backward(): what it adds to every .grad
BatchGrad(p, acts) ==
    [q \in ParamSet |->
        SumSeq([i \in 1..Len(acts) |-> SampleGrad(p, acts[i], Len(acts))[q]])]

(* ------------------------------ optimizer ----------------------------- *)
\* a step that moves the parameter even when the first moment is zero
DirectionNeverZero(m, v) ==
    IF IsNaN(v) THEN NaN ELSE IF Num(m) >= 0 THEN Fin(1) ELSE Fin(-1)

\* a step that skips a non-finite gradient as it skips a missing one
AdamParamSkipNaN(p, g, m, v) ==
    IF IsNone(g) \/ IsNaN(g) THEN [p |-> p, m |-> m, v |-> v]
    ELSE LET m1 == Add(m, g)
             v1 == Add(v, Mul(g, g))
         IN  [p |-> Sub(p, Sign(m1)), m |-> m1, v |-> v1]

\* Adam's step has the direction of the first moment and about the size
\* lr, which is one unit of the parameter grid; a non-finite moment makes
\* the step non-finite
Direction(m, v) == IF IsNaN(v) THEN NaN ELSE Sign(m)

\* optim.Adam.step() on one parameter: the moments take the gradient in
\* (kept un-normalised: the decay rates and the bias correction rescale
\* them by positive factors), then the parameter moves
AdamParam(p, g, m, v) ==
    IF IsNone(g) THEN [p |-> p, m |-> m, v |-> v]
    ELSE LET m1 == Add(m, g)
             v1 == Add(v, Mul(g, g))
         IN  [p |-> Sub(p, Direction(m1, v1)), m |-> m1, v |-> v1]

(* ------------------------------- shapes ------------------------------- *)
input_shape == 784   \* AE(input_shape=784), view(-1, 784)
Hidden == 128        \* the width of the three inner layers

Last(s) == s[Len(s)]

\* a model whose last layer is as wide as the inner ones
LayersNarrowOutput(n) ==
    << [in_features |-> n, out_features |-> Hidden],
       [in_features |-> Hidden, out_features |-> Hidden],
       [in_features |-> Hidden, out_features |-> Hidden],
       [in_features |-> Hidden, out_features |-> Hidden] >>

\* the four nn.Linear of AE(input_shape=n), in the order forward uses them
Layers(n) ==
    << [in_features |-> n, out_features |-> Hidden],
       [in_features |-> Hidden, out_features |-> Hidden],
       [in_features |-> Hidden, out_features |-> Hidden],
       [in_features |-> Hidden, out_features |-> n] >>

\* what a call with mismatching shapes leaves: nothing
NoShape == <<>>

\* batch.view(-1, 784) of a batch of n samples of 784 values each
View(n) == <<n, input_shape>>

\* an nn.Linear applied to a tensor of shape (N, in_features): (N,
\* out_features); any other width raises
LinearShape(shape, layer) ==
    IF shape # NoShape /\ shape[2] = layer.in_features
    THEN <<shape[1], layer.out_features>>
    ELSE NoShape

RECURSIVE ShapesFrom(_, _)
\* the shape after each layer and its relu, which keeps the shape
ShapesFrom(shape, layers) ==
    IF layers = <<>> THEN <<>>
    ELSE LET out == LinearShape(shape, Head(layers))
         IN  <<out>> \o ShapesFrom(out, Tail(layers))

\* AE.forward: the shapes of activation, code, activation, reconstructed
ForwardShapes(shape) == ShapesFrom(shape, Layers(input_shape))

\* before any forward pass
NoShapes == [batch_features |-> NoShape, activations |-> <<>>,
             reconstruction |-> NoShape]

(* ------------------------------- state -------------------------------- *)
VARIABLES
    cfg,             \* seed, batch_size, epochs, train_dataset, test_dataset
    rng,             \* state of torch's global generator
    params,          \* model.parameters()
    grad,            \* the .grad of every parameter
    exp_avg,         \* optimizer.state[p]['exp_avg']
    exp_avg_sq,      \* optimizer.state[p]['exp_avg_sq']
    step,            \* optimizer.state[p]['step']
    pc,              \* the statement the notebook is at
    epoch,           \* the loop variable of the outer for
    loss,            \* the running loss: sum / div
    sampler_iter,    \* index batches the loader has still to deliver
    batch_idx,       \* indices of the batch being processed
    batch_features,  \* the batch being processed
    acts,            \* the graph recorded by the forward pass
    train_loss,      \* criterion(outputs, batch_features)
    stdout,          \* the lines printed
    reconstruction,  \* the evaluation cell's result
    test_examples,   \* the batch the evaluation cell took
    shapes,          \* the shapes of the tensors of the forward passes
    events,          \* history: batches processed and lines printed
    sampler,         \* a batch sampler iterated on its own
    loader,          \* a DataLoader iterator with its worker processes
    twin,            \* two runs of the seeded sampler, side by side
    second_run,      \* the lines a second run of the notebook prints
    game             \* the guessing game's page

training == <<cfg, rng, params, grad, exp_avg, exp_avg_sq, step, pc, epoch,
              loss, sampler_iter, batch_idx, batch_features, acts, train_loss,
              stdout, reconstruction, test_examples, shapes, events>>

\* what the notebook's cells leave alone
others == <<sampler, loader, twin, second_run, game>>

vars == <<training, others>>

optVars == <<params, grad, exp_avg, exp_avg_sq, step>>
batchVars == <<batch_idx, batch_features, acts, train_loss>>

Pixels == {0, 1}
\* held-out sets tried: all black, and alternating
TestSets == {[i \in 1..TestSize |-> 0], [i \in 1..TestSize |-> i % 2]}

TrainSize == Len(cfg.train_dataset)
NumBatches == LoaderLen(TrainSize, cfg.batch_size)

\* the samples of an index batch, as one tensor
Collate(dataset, idx) == [i \in 1..Len(idx) |-> Fin(dataset[idx[i] + 1])]

\* iter(train_loader): the iterator draws its base seed, then the sampler
\* draws the permutation of the pass
NewPass(x, n, batch_size) ==
    LET o == SamplerOrder(TRUE, NextRng(x), n)
    IN  [batches |-> BatchSampler(o.perm, batch_size, <<>>), rng |-> o.rng]

\* the parts of the state a specification does not use
SamplerOff == [on |-> FALSE]
LoaderOff == [on |-> FALSE]
TwinOff == [on |-> FALSE]
GameOff == [on |-> FALSE]

(* --------------------------- training loop ---------------------------- *)
\* the cell starts running
RunCell ==
    /\ pc = "Idle"
    /\ pc' = "ForEpoch"
    /\ UNCHANGED <<others, cfg, rng, optVars, epoch, loss, sampler_iter,
                   batchVars, shapes,
                   stdout, reconstruction, test_examples, events>>

\* a loop that runs once too often
MoreEpochsInclusive(e, n) == e + 1 <= n

\* another epoch is due
MoreEpochs(e, n) == e + 1 < n

\* a loss that is not reset: the last epoch's sum is carried over
StaleLoss == [sum |-> loss.sum, div |-> 1]

\* loss = 0
FreshLoss == [sum |-> Fin(0), div |-> 1]

\* for epoch in range(epochs): loss = 0, and the inner for takes a new
\* iterator of train_loader; or the range is exhausted
ForEpoch ==
    /\ pc = "ForEpoch"
    /\ IF MoreEpochs(epoch, cfg.epochs)
       THEN LET pass == NewPass(rng, TrainSize, cfg.batch_size) IN
            /\ epoch' = epoch + 1
            /\ loss' = FreshLoss
            /\ sampler_iter' = pass.batches
            /\ rng' = pass.rng
            /\ pc' = "ForBatch"
       ELSE /\ pc' = "Completed"
            /\ UNCHANGED <<epoch, loss, sampler_iter, rng>>
    /\ UNCHANGED <<others, cfg, optVars, batchVars, shapes, stdout,
                   reconstruction, test_examples, events>>

\* for batch_features, _ in train_loader, and the view(-1, 784)
ForBatch ==
    /\ pc = "ForBatch"
    /\ IF sampler_iter # <<>>
       THEN /\ batch_idx' = Head(sampler_iter)
            /\ batch_features' = Collate(cfg.train_dataset, Head(sampler_iter))
            /\ shapes' = [shapes EXCEPT
                            !.batch_features = View(Len(Head(sampler_iter)))]
            /\ sampler_iter' = Tail(sampler_iter)
            /\ pc' = "ZeroGrad"
       ELSE /\ pc' = "Mean"
            /\ UNCHANGED <<batch_idx, batch_features, sampler_iter, shapes>>
    /\ UNCHANGED <<others, cfg, rng, optVars, epoch, loss, acts, train_loss,
                   stdout,
                   reconstruction, test_examples, events>>

\* a zero_grad that resets nothing
NotZeroed(g) == g

\* what zero_grad leaves in a .grad
Zeroed(g) == IF IsNone(g) THEN None ELSE Fin(0)

\* optimizer.zero_grad()
ZeroGrad ==
    /\ pc = "ZeroGrad"
    /\ grad' = [p \in ParamSet |-> Zeroed(grad[p])]
    /\ pc' = "Forward"
    /\ UNCHANGED <<others, cfg, rng, params, exp_avg, exp_avg_sq, step, epoch,
                   loss, sampler_iter, batchVars, shapes, stdout, reconstruction,
                   test_examples, events>>

\* outputs = model(batch_features)
ModelForward ==
    /\ pc = "Forward"
    /\ acts' = ForwardBatch(params, batch_features)
    /\ shapes' = [shapes EXCEPT
                    !.activations = ForwardShapes(shapes.batch_features)]
    /\ pc' = "Criterion"
    /\ UNCHANGED <<others, cfg, rng, optVars, epoch, loss, sampler_iter,
                   batch_idx,
                   batch_features, train_loss, stdout, reconstruction,
                   test_examples, events>>

\* train_loss = criterion(outputs, batch_features)
Criterion ==
    /\ pc = "Criterion"
    /\ train_loss' = MSELoss(Outputs(acts), batch_features)
    /\ pc' = "Backward"
    /\ UNCHANGED <<others, cfg, rng, optVars, epoch, loss, sampler_iter,
                   batch_idx,
                   batch_features, acts, shapes, stdout, reconstruction,
                   test_examples, events>>

\* backward adds to a .grad that exists and sets one that does not
Accumulate(old, g) == IF IsNone(old) THEN g ELSE Add(old, g)

\* train_loss.backward()
Backward ==
    /\ pc = "Backward"
    /\ LET g == BatchGrad(params, acts) IN
       grad' = [p \in ParamSet |-> Accumulate(grad[p], g[p])]
    /\ pc' = "Step"
    /\ UNCHANGED <<others, cfg, rng, params, exp_avg, exp_avg_sq, step, epoch,
                   loss, sampler_iter, batchVars, shapes, stdout, reconstruction,
                   test_examples, events>>

\* a counter that counts every parameter updated
StepCountPerParam(s) == s + Cardinality(ParamSet)

\* state['step'] += 1, once per step(): every parameter has a gradient
StepCount(s) == s + 1

\* optimizer.step()
OptimizerStep ==
    /\ pc = "Step"
    /\ LET r == [p \in ParamSet |->
                    AdamParam(params[p], grad[p], exp_avg[p], exp_avg_sq[p])]
       IN  /\ params' = [p \in ParamSet |-> r[p].p]
           /\ exp_avg' = [p \in ParamSet |-> r[p].m]
           /\ exp_avg_sq' = [p \in ParamSet |-> r[p].v]
    /\ step' = StepCount(step)
    /\ pc' = "AddLoss"
    /\ UNCHANGED <<others, cfg, rng, grad, epoch, loss, sampler_iter, batchVars,
                   shapes,
                   stdout, reconstruction, test_examples, events>>

\* loss += train_loss.item()
AddLoss ==
    /\ pc = "AddLoss"
    /\ loss' = [loss EXCEPT !.sum = Add(@, train_loss)]
    /\ events' = Append(events, [kind |-> "batch", epoch |-> epoch,
                                 indices |-> batch_idx, loss |-> train_loss])
    /\ pc' = "ForBatch"
    /\ UNCHANGED <<others, cfg, rng, optVars, epoch, sampler_iter, batchVars,
                   shapes, stdout,
                   reconstruction, test_examples>>

\* loss = loss / len(train_loader)
EpochMean ==
    /\ pc = "Mean"
    /\ loss' = [loss EXCEPT !.div = NumBatches]
    /\ pc' = "Print"
    /\ UNCHANGED <<others, cfg, rng, optVars, epoch, sampler_iter, batchVars,
                   shapes, stdout,
                   reconstruction, test_examples, events>>

\* "{:.6f}": the quotient (of Scale's multiple) rounded to six decimals,
\* in millionths
Format6(l) ==
    IF IsNaN(l.sum) THEN NaN
    ELSE LET d == l.div * Scale
             q == Num(l.sum) \div d
             r == Num(l.sum) % d
         IN  Fin(q * 1000000 + (r * 1000000 + d \div 2) \div d)

\* the loop variable printed as it is, counting from 0
EpochNumberFromZero(e) == e

\* epoch + 1
EpochNumber(e) == e + 1

\* print("epoch : {}/{}, loss = {:.6f}".format(epoch + 1, epochs, loss))
PrintEpoch ==
    /\ pc = "Print"
    /\ stdout' = Append(stdout, [i |-> EpochNumber(epoch), n |-> cfg.epochs,
                                 loss |-> Format6(loss)])
    /\ events' = Append(events, [kind |-> "print", epoch |-> epoch,
                                 indices |-> <<>>, loss |-> Format6(loss)])
    /\ pc' = "ForEpoch"
    /\ UNCHANGED <<others, cfg, rng, optVars, epoch, loss, sampler_iter,
                   batchVars, shapes,
                   reconstruction, test_examples>>

(* ----------------------------- evaluation ----------------------------- *)
\* a held-out loader that shuffles, and so draws from the generator
TestOrderShuffled(x, n) == SamplerOrder(TRUE, x, n)

\* test_loader's sampler: shuffle=False
TestOrder(x, n) == SamplerOrder(FALSE, x, n)

\* the first batch of test_loader (batch_size=10, shuffle=False)
FirstTestBatch ==
    LET n == Len(cfg.test_dataset)
        o == TestOrder(rng, n)
    IN  Head(BatchSampler(o.perm, EvalBatch, <<>>))

\* an evaluation cell that also calls optimizer.step()
EvaluateWithStep ==
    /\ pc \in {"Idle", "Completed"}
    /\ test_examples' = Collate(cfg.test_dataset, FirstTestBatch)
    /\ reconstruction' =
          Outputs(ForwardBatch(params, Collate(cfg.test_dataset, FirstTestBatch)))
    /\ shapes' = [shapes EXCEPT
                    !.reconstruction =
                        Last(ForwardShapes(View(Len(FirstTestBatch))))]
    /\ LET r == [p \in ParamSet |->
                    AdamParam(params[p], grad[p], exp_avg[p], exp_avg_sq[p])]
       IN  /\ params' = [p \in ParamSet |-> r[p].p]
           /\ exp_avg' = [p \in ParamSet |-> r[p].m]
           /\ exp_avg_sq' = [p \in ParamSet |-> r[p].v]
    /\ step' = step + 1
    /\ UNCHANGED <<others, cfg, rng, grad, pc, epoch, loss, sampler_iter,
                   batchVars, stdout, events>>

\* with torch.no_grad(): reconstruction = model(test_examples); break
Evaluate ==
    /\ pc \in {"Idle", "Completed"}
    /\ test_examples' = Collate(cfg.test_dataset, FirstTestBatch)
    /\ reconstruction' =
          Outputs(ForwardBatch(params, Collate(cfg.test_dataset, FirstTestBatch)))
    /\ shapes' = [shapes EXCEPT
                    !.reconstruction =
                        Last(ForwardShapes(View(Len(FirstTestBatch))))]
    /\ rng' = TestOrder(rng, Len(cfg.test_dataset)).rng
    /\ UNCHANGED <<others, cfg, optVars, pc, epoch, loss, sampler_iter,
                   batchVars, stdout, events>>

(* ---------------- a second run of the whole notebook ------------------ *)
\* the one element of a singleton: {e : x \in {d}} names d's value x in e
Only(S) == CHOOSE x \in S : TRUE

\* optimizer.step() on every parameter, and the loss added to the sum
RunStep(st, l, gr) ==
    Only({[st EXCEPT !.params = [p \in ParamSet |-> r[p].p],
                     !.exp_avg = [p \in ParamSet |-> r[p].m],
                     !.exp_avg_sq = [p \in ParamSet |-> r[p].v],
                     !.grad = gr,
                     !.loss = [sum |-> Add(st.loss.sum, l), div |-> 1]] :
          r \in {[p \in ParamSet |->
                    AdamParam(st.params[p], gr[p], st.exp_avg[p],
                              st.exp_avg_sq[p])]}})

\* one batch of the training cell: zero_grad, forward, loss, backward,
\* step, and the loss added to the running sum
RunBatch(st, features) ==
    Only({Only({RunStep(st, MSELoss(Outputs(a), features),
                        [p \in ParamSet |->
                            Accumulate(Zeroed(st.grad[p]), g[p])]) :
                g \in {BatchGrad(st.params, a)}}) :
          a \in {ForwardBatch(st.params, features)}})

RECURSIVE RunBatches(_, _, _)
\* for batch_features, _ in train_loader: ...
RunBatches(st, dataset, batches) ==
    IF batches = <<>> THEN st
    ELSE Only({RunBatches(s, dataset, Tail(batches)) :
               s \in {RunBatch(st, Collate(dataset, Head(batches)))}})

\* loss = loss / len(train_loader), and the line printed
RunPrint(st, c, e) ==
    LET mean == [st.loss EXCEPT
                   !.div = LoaderLen(Len(c.train_dataset), c.batch_size)]
    IN  [st EXCEPT !.stdout =
            Append(@, [i |-> EpochNumber(e), n |-> c.epochs,
                       loss |-> Format6(mean)])]

RECURSIVE RunEpochs(_, _, _)
\* for epoch in range(epochs): ...; the lines it prints
RunEpochs(st, c, e) ==
    IF ~MoreEpochs(e, c.epochs) THEN st.stdout
    ELSE Only({Only({RunEpochs(RunPrint(s, c, e + 1), c, e + 1) :
                     s \in {RunBatches([st EXCEPT
                                          !.loss = [sum |-> Fin(0), div |-> 1],
                                          !.rng = pass.rng],
                                       c.train_dataset, pass.batches)}}) :
               pass \in {NewPass(st.rng, Len(c.train_dataset), c.batch_size)}})

\* the lines a run of the notebook prints when its cells run from the
\* seed cell to the end of the training cell with nothing in between
RunNotebook(c) ==
    LET r == AEInit(ManualSeed(c.seed))
    IN  RunEpochs([params |-> r.params, rng |-> r.rng,
                   grad |-> [p \in ParamSet |-> None],
                   exp_avg |-> [p \in ParamSet |-> Fin(0)],
                   exp_avg_sq |-> [p \in ParamSet |-> Fin(0)],
                   loss |-> [sum |-> Fin(0), div |-> 1],
                   stdout |-> <<>>], c, -1)

(* ------------------------------ start ---------------------------------- *)
\* the state after the seed, configuration, model and loader cells
Init ==
    /\ sampler = SamplerOff
    /\ loader = LoaderOff
    /\ twin = TwinOff
    /\ game = GameOff
    /\ \E s \in Seeds, n \in 1..MaxSize, b \in 1..MaxBatch, e \in 1..MaxEpochs,
             test \in TestSets :
       \E train \in [1..n -> Pixels] :
       LET r == AEInit(ManualSeed(s)) IN
       /\ cfg = [seed |-> s, batch_size |-> b, epochs |-> e,
                 train_dataset |-> train, test_dataset |-> test]
       /\ rng = r.rng
       /\ params = r.params
       /\ grad = [p \in ParamSet |-> None]
       /\ exp_avg = [p \in ParamSet |-> Fin(0)]
       /\ exp_avg_sq = [p \in ParamSet |-> Fin(0)]
       /\ step = 0
       /\ pc = "Idle"
       /\ epoch = -1
       /\ loss = [sum |-> Fin(0), div |-> 1]
       /\ sampler_iter = <<>>
       /\ batch_idx = <<>>
       /\ batch_features = <<>>
       /\ acts = <<>>
       /\ train_loss = Fin(0)
       /\ stdout = <<>>
       /\ reconstruction = <<>>
       /\ test_examples = <<>>
       /\ shapes = NoShapes
       /\ events = <<>>
       /\ second_run = RunNotebook([seed |-> s, batch_size |-> b, epochs |-> e,
                   train_dataset |-> train, test_dataset |-> test])

Next ==
    \/ RunCell
    \/ ForEpoch
    \/ ForBatch
    \/ ZeroGrad
    \/ ModelForward
    \/ Criterion
    \/ Backward
    \/ OptimizerStep
    \/ AddLoss
    \/ EpochMean
    \/ PrintEpoch
    \/ Evaluate

Spec == Init /\ [][Next]_vars

\* the statements of the training cell
Loop ==
    \/ RunCell
    \/ ForEpoch
    \/ ForBatch
    \/ ZeroGrad
    \/ ModelForward
    \/ Criterion
    \/ Backward
    \/ OptimizerStep
    \/ AddLoss
    \/ EpochMean
    \/ PrintEpoch

\* the runs of the notebook's own seed, over one training set of every
\* size and one held-out set (the loop's control does not read the pixels)
FairInit ==
    /\ Init
    /\ cfg.seed = seed
    /\ cfg.train_dataset = [i \in 1..TrainSize |-> i % 2]
    /\ cfg.test_dataset = [i \in 1..TestSize |-> 0]

\* the cell, once started, runs on: the kernel executes it to its end
FairSpec == FairInit /\ [][Next]_vars /\ WF_vars(Loop)

(* --------------------------- fault injection -------------------------- *)
HasNaN(f) == \E p \in ParamSet : IsNaN(f[p])

\* a test harness overwrites one entry of a .grad with NaN between
\* backward and the optimizer step
InjectNaN ==
    /\ pc = "Step"
    /\ ~HasNaN(grad)
    /\ \E p \in ParamSet : grad' = [grad EXCEPT ![p] = NaN]
    /\ UNCHANGED <<others, cfg, rng, params, exp_avg, exp_avg_sq, step, pc,
                   epoch, loss, sampler_iter, batchVars, shapes, stdout,
                   reconstruction, test_examples, events>>

NextFault ==
    \/ Next
    \/ InjectNaN

\* the runs of the notebook's own seed, over one held-out set
FaultInit ==
    /\ Init
    /\ cfg.seed = seed
    /\ cfg.test_dataset = [i \in 1..TestSize |-> 0]

FaultSpec == FaultInit /\ [][NextFault]_vars

(* ---------------------- properties of training ----------------------- *)
\* the state of the spec's state machine
State ==
    IF pc = "Idle" THEN "Idle"
    ELSE IF pc = "Completed" THEN "Completed"
    ELSE IF pc = "Failed" THEN "Failed"
    ELSE "Running"

BatchEvents(e) ==
    SelectSeq(events, LAMBDA ev : ev.kind = "batch" /\ ev.epoch = e)
PrintEvents(e) ==
    SelectSeq(events, LAMBDA ev : ev.kind = "print" /\ ev.epoch = e)

RECURSIVE Concat(_)
Concat(ss) == IF ss = <<>> THEN <<>> ELSE Head(ss) \o Concat(Tail(ss))

EpochIndices(e) ==
    Concat([i \in 1..Len(BatchEvents(e)) |-> BatchEvents(e)[i].indices])
EpochLosses(e) ==
    [i \in 1..Len(BatchEvents(e)) |-> BatchEvents(e)[i].loss]

\* seq holds every index of 0..n-1 exactly once and nothing else
CoversOnce(seq, n) ==
    /\ Len(seq) = n
    /\ {seq[i] : i \in 1..Len(seq)} = 0..(n - 1)

\* epoch e processed every batch of one full sampler pass
FullPass(e) ==
    /\ Len(BatchEvents(e)) = NumBatches
    /\ CoversOnce(EpochIndices(e), TrainSize)

ExactlyTheEpochs ==
    /\ epoch + 1 = cfg.epochs
    /\ \A e \in 0..(cfg.epochs - 1) : FullPass(e)
    /\ \A i \in 1..Len(events) : events[i].epoch < cfg.epochs

\* C1: from Idle, with epochs >= 1 and a finite non-empty dataset, a run
\* without error eventually reaches Completed, is there after exactly
\* epochs epochs that each processed every batch of one full sampler pass,
\* and is never in Failed.
C1_ReachesCompleted ==
    /\ <>(State = "Completed")
    /\ [](State = "Completed" => ExactlyTheEpochs)
    /\ [](State # "Failed")

C1_Witness ==
    /\ State = "Completed"
    /\ cfg.epochs >= 2
    /\ NumBatches >= 2
    /\ Len(events) = cfg.epochs * (NumBatches + 1)

NaNLossIn(e) == \E i \in 1..Len(BatchEvents(e)) : IsNaN(BatchEvents(e)[i].loss)

ZeroOrNone(g) == IsNone(g) \/ g = Fin(0)

\* C5: in every training step the gradients are reset to zero after the
\* previous optimizer step and before the backward pass, so the gradient
\* the optimizer consumes is the gradient of the current batch alone.
C5_GradOfCurrentBatch ==
    /\ pc \in {"Forward", "Criterion", "Backward"} =>
          \A p \in ParamSet : ZeroOrNone(grad[p])
    /\ pc = "Step" => grad = BatchGrad(params, acts)

\* a later step, after a step whose gradient was not zero
C5_Witness ==
    /\ pc = "Step"
    /\ step >= 1
    /\ \E p \in ParamSet : exp_avg_sq[p] # Fin(0)

\* C6: the reported epoch loss is the sum of the batch losses of that
\* epoch alone divided by the number of batches of that epoch's pass: the
\* accumulator is 0 when the epoch's first batch starts, each batch loss
\* is added once, nothing of an earlier epoch is in the sum or the divisor.
C6_EpochLossIsMean ==
    /\ pc \in {"ForBatch", "ZeroGrad", "Forward", "Criterion", "Backward",
               "Step", "AddLoss", "Mean", "Print"} =>
          loss.sum = SumSeq(EpochLosses(epoch))
    /\ pc = "Print" =>
          /\ loss.div = Len(BatchEvents(epoch))
          /\ loss.div = NumBatches
    /\ \A k \in 1..Len(stdout) :
          stdout[k].loss = Format6([sum |-> SumSeq(EpochLosses(k - 1)),
                                    div |-> Len(BatchEvents(k - 1))])

C6_Witness ==
    /\ Len(stdout) >= 2
    /\ NumBatches >= 2
    /\ stdout[1].loss # Fin(0)
    /\ stdout[2].loss # stdout[1].loss

\* C7: running the evaluation cell, at any point it can run and any number
\* of times, leaves every parameter, every gradient, both moment estimates
\* and the step counter unchanged; it does a forward pass only (it records
\* no graph, runs no backward and no optimizer step).  The steps that do
\* not move the training cell are the evaluation cell's.
C7_EvaluatorFrame ==
    [][pc' = pc =>
          /\ UNCHANGED <<params, grad, exp_avg, exp_avg_sq, step>>
          /\ UNCHANGED <<acts, train_loss, loss>>]_vars

C7_Witness ==
    /\ pc = "Completed"
    /\ step >= 2
    /\ \A p \in ParamSet : ~IsNone(grad[p])
    /\ \E p \in ParamSet : exp_avg_sq[p] # Fin(0)
    /\ reconstruction =
          Outputs(ForwardBatch(params, Collate(cfg.test_dataset, FirstTestBatch)))

\* the training set is one sample whose values are all zero
OneZeroSample == cfg.train_dataset = <<0>>

InitialParams == AEInit(ManualSeed(cfg.seed)).params

\* C9 as stated: with a dataset of one all-zero sample the batch loss is
\* exactly 0 at every training step, for any number of steps and epochs.
C9_LossAlwaysZero ==
    (OneZeroSample /\ pc \in {"Backward", "Step", "AddLoss"}) =>
        train_loss = Fin(0)

\* C9 as amended: with a dataset of one all-zero sample, if the initial
\* parameters reconstruct zero from zero, the batch loss is exactly 0 at
\* every training step and no optimizer step changes a parameter.
C9_ZeroStaysZero ==
    (OneZeroSample /\ Forward(InitialParams, Fin(0)).out = Fin(0)) =>
        /\ params = InitialParams
        /\ pc \in {"Backward", "Step", "AddLoss"} => train_loss = Fin(0)

C9_Witness ==
    /\ OneZeroSample
    /\ Forward(InitialParams, Fin(0)).out = Fin(0)
    /\ pc = "AddLoss"
    /\ step >= 2

\* C10: a run that reaches Completed with epochs = N has printed exactly N
\* lines, numbered 1, 2, ..., N in this order, each showing the total N;
\* the line of epoch i comes after the last batch of epoch i and before
\* the first batch of epoch i + 1.
C10_EpochLines ==
    /\ \A k \in 1..Len(stdout) : stdout[k].i = k /\ stdout[k].n = cfg.epochs
    /\ Len(stdout) <= cfg.epochs
    /\ pc = "Completed" => Len(stdout) = cfg.epochs
    /\ \A a \in 1..Len(events) : \A b \in 1..Len(events) :
          a < b =>
             /\ events[a].epoch <= events[b].epoch
             /\ events[a].kind = "print" => events[a].epoch < events[b].epoch
    /\ \A a \in 1..Len(events) :
          events[a].kind = "print" =>
             Len(BatchEvents(events[a].epoch)) = NumBatches
    /\ \A e \in 0..(cfg.epochs - 1) :
          Len(PrintEvents(e)) = (IF e + 1 <= Len(stdout) THEN 1 ELSE 0)

C10_Witness ==
    /\ pc = "Completed"
    /\ cfg.epochs >= 2
    /\ NumBatches >= 2
    /\ Len(stdout) = cfg.epochs

(* ----------------------- the batch sampler alone ---------------------- *)
\* the notebook's cells, not run
TrainingOff ==
    /\ cfg = [seed |-> seed, batch_size |-> 1, epochs |-> 1,
              train_dataset |-> <<0>>, test_dataset |-> <<0>>]
    /\ rng = ManualSeed(seed)
    /\ params = [p \in ParamSet |-> Fin(0)]
    /\ grad = [p \in ParamSet |-> None]
    /\ exp_avg = [p \in ParamSet |-> Fin(0)]
    /\ exp_avg_sq = [p \in ParamSet |-> Fin(0)]
    /\ step = 0
    /\ pc = "Idle"
    /\ epoch = -1
    /\ loss = [sum |-> Fin(0), div |-> 1]
    /\ sampler_iter = <<>>
    /\ batch_idx = <<>>
    /\ batch_features = <<>>
    /\ acts = <<>>
    /\ train_loss = Fin(0)
    /\ stdout = <<>>
    /\ reconstruction = <<>>
    /\ test_examples = <<>>
    /\ shapes = NoShapes
    /\ events = <<>>
    /\ second_run = <<>>

\* a sampler over a dataset of n samples, in either mode, not yet iterated
SamplerInit ==
    /\ TrainingOff
    /\ loader = LoaderOff
    /\ twin = TwinOff
    /\ game = GameOff
    /\ \E n \in 1..MaxSize, b \in 1..MaxBatch, sh \in BOOLEAN, s \in Seeds :
          sampler = [on |-> TRUE, n |-> n, batch_size |-> b, shuffle |-> sh,
                     rng |-> ManualSeed(s), iterating |-> FALSE,
                     rest |-> <<>>, yielded |-> <<>>, passes |-> 0]

\* iter(batch_sampler): a new pass; the order is drawn when the pass starts
SamplerIter ==
    /\ sampler.on
    /\ ~sampler.iterating
    /\ sampler.passes < MaxEpochs
    /\ LET o == SamplerOrder(sampler.shuffle, sampler.rng, sampler.n) IN
       sampler' = [sampler EXCEPT
                     !.iterating = TRUE,
                     !.rng = o.rng,
                     !.rest = BatchSampler(o.perm, sampler.batch_size, <<>>),
                     !.yielded = <<>>]
    /\ UNCHANGED <<training, loader, twin, second_run, game>>

\* next(it): the next index batch
SamplerNext ==
    /\ sampler.on
    /\ sampler.iterating
    /\ sampler.rest # <<>>
    /\ sampler' = [sampler EXCEPT
                     !.rest = Tail(@),
                     !.yielded = Append(@, Head(sampler.rest))]
    /\ UNCHANGED <<training, loader, twin, second_run, game>>

\* next(it) at the end of the pass: StopIteration
SamplerStop ==
    /\ sampler.on
    /\ sampler.iterating
    /\ sampler.rest = <<>>
    /\ sampler' = [sampler EXCEPT !.iterating = FALSE, !.passes = @ + 1]
    /\ UNCHANGED <<training, loader, twin, second_run, game>>

SamplerNextStep ==
    \/ SamplerIter
    \/ SamplerNext
    \/ SamplerStop

SamplerSpec == SamplerInit /\ [][SamplerNextStep]_vars

\* the pass is over: every batch has been yielded
PassOver == sampler.on /\ sampler.rest = <<>> /\ sampler.yielded # <<>>

\* the length of the last batch of a pass over n samples
LastLen(n, b) == IF n % b = 0 THEN b ELSE n % b

NoRepeat(seq) ==
    \A i \in 1..Len(seq) : \A j \in 1..Len(seq) : seq[i] = seq[j] => i = j

\* C3: for every dataset size S >= 1 and batch_size B >= 1, in both
\* shuffle modes, the batches of one pass hold every index of [0, S)
\* exactly once and no other index; every batch has B indices except
\* possibly the last, which has S mod B when B does not divide S; a new
\* pass covers [0, S) exactly once again.
C3_PassCoversOnce ==
    sampler.on =>
       /\ NoRepeat(Concat(sampler.yielded))
       /\ \A i \in 1..Len(sampler.yielded) :
             \A j \in 1..Len(sampler.yielded[i]) :
                sampler.yielded[i][j] \in 0..(sampler.n - 1)
       /\ \A i \in 1..Len(sampler.yielded) :
             Len(sampler.yielded[i]) =
                IF i < LoaderLen(sampler.n, sampler.batch_size)
                THEN sampler.batch_size
                ELSE LastLen(sampler.n, sampler.batch_size)
       /\ PassOver => CoversOnce(Concat(sampler.yielded), sampler.n)

\* the end of a second, shuffled pass with a short last batch
C3_Witness ==
    /\ PassOver
    /\ sampler.passes >= 1
    /\ sampler.iterating
    /\ sampler.shuffle
    /\ sampler.n % sampler.batch_size # 0
    /\ sampler.n > sampler.batch_size
    /\ Concat(sampler.yielded) # [k \in 1..sampler.n |-> k - 1]

(* ------------------- two runs of the seeded sampler ------------------- *)
Runs == {"a", "b"}

\* two processes; each called torch.manual_seed with its seed, and built
\* train_loader over the same dataset size with the same batch_size
TwinInit ==
    /\ TrainingOff
    /\ sampler = SamplerOff
    /\ loader = LoaderOff
    /\ game = GameOff
    /\ \E n \in 1..MaxSize, b \in 1..MaxBatch, sa \in Seeds, sb \in Seeds :
          LET run(s, id) == [seed |-> s, rng |-> ManualSeed(s), pid |-> id,
                             ops |-> <<>>, passes |-> <<>>]
          IN  twin = [on |-> TRUE, n |-> n, batch_size |-> b,
                      runs |-> [r \in Runs |->
                                  IF r = "a" THEN run(sa, 1) ELSE run(sb, 2)]]

Count(ops, kind) == Len(SelectSeq(ops, LAMBDA o : o = kind))

\* model = AE(input_shape=784): the initialisation draws from the global
\* generator (a run builds its model at most once, at any time)
TwinModelInit(r) ==
    /\ twin.on
    /\ Count(twin.runs[r].ops, "init") = 0
    /\ twin' = [twin EXCEPT
                  !.runs[r].rng = AEInit(@).rng,
                  !.runs[r].ops = Append(@, "init")]
    /\ UNCHANGED <<training, sampler, loader, second_run, game>>

\* a sampler that also mixes the process id into its randomness
SamplerSourceWithPid(run) == run.rng + run.pid

\* where the sampler of a run takes its randomness: the global generator
SamplerSource(run) == run.rng

\* for ... in train_loader: one pass of the run's shuffled loader
TwinPass(r) ==
    /\ twin.on
    /\ Count(twin.runs[r].ops, "pass") < MaxEpochs
    /\ LET run == twin.runs[r]
           pass == NewPass(SamplerSource(run), twin.n, twin.batch_size)
       IN  twin' = [twin EXCEPT
                      !.runs[r].rng = pass.rng,
                      !.runs[r].ops = Append(@, "pass"),
                      !.runs[r].passes =
                          Append(@, [before |-> run.ops,
                                     batches |-> pass.batches])]
    /\ UNCHANGED <<training, sampler, loader, second_run, game>>

TwinNext ==
    \/ \E r \in Runs : TwinModelInit(r)
    \/ \E r \in Runs : TwinPass(r)

TwinSpec == TwinInit /\ [][TwinNext]_vars

\* C4 as stated: the shuffled batch order depends only on the seed: two
\* runs with the same seed, dataset size and batch_size yield identical
\* index batches in every epoch, whatever other operations that consume
\* randomness ran before or between them.
C4_OrderFromSeedAlone ==
    (twin.on /\ twin.runs["a"].seed = twin.runs["b"].seed) =>
        \A e \in 1..Len(twin.runs["a"].passes) :
            e <= Len(twin.runs["b"].passes) =>
                twin.runs["a"].passes[e].batches =
                    twin.runs["b"].passes[e].batches

\* C4 as amended: the shuffled batch order of a pass depends on the seed
\* and on what drew from the global generator before the pass: two runs
\* with the same seed, dataset size and batch_size yield identical index
\* batches in any two passes before which the same randomness-consuming
\* operations ran in the same order.
C4_OrderFromSeedAndDraws ==
    (twin.on /\ twin.runs["a"].seed = twin.runs["b"].seed) =>
        \A i \in 1..Len(twin.runs["a"].passes) :
            \A j \in 1..Len(twin.runs["b"].passes) :
                twin.runs["a"].passes[i].before =
                        twin.runs["b"].passes[j].before =>
                    twin.runs["a"].passes[i].batches =
                        twin.runs["b"].passes[j].batches

\* two runs with one seed that did the same things, and whose second pass
\* differs from their first
C4_Witness ==
    /\ twin.on
    /\ twin.runs["a"].seed = twin.runs["b"].seed
    /\ twin.runs["a"].ops = <<"init", "pass", "pass">>
    /\ twin.runs["b"].ops = <<"init", "pass", "pass">>
    /\ twin.runs["a"].passes[1].batches # twin.runs["a"].passes[2].batches
    /\ twin.runs["b"].passes[2].batches = twin.runs["a"].passes[2].batches

(* --------------- the DataLoader iterator and its workers -------------- *)
\* a loader with num_workers workers over a dataset of n samples, in
\* shuffle mode, before its first pass
LoaderInit ==
    /\ TrainingOff
    /\ sampler = SamplerOff
    /\ twin = TwinOff
    /\ game = GameOff
    /\ \E n \in 1..LoaderSize, b \in 1..MaxBatch, w \in 1..MaxWorkers :
          loader = [on |-> TRUE, n |-> n, batch_size |-> b,
                    num_workers |-> w, rng |-> ManualSeed(seed),
                    iterating |-> FALSE, passes |-> 0,
                    batches |-> <<>>, send_idx |-> 0, rcvd_idx |-> 0,
                    next_worker |-> 1,
                    index_queues |-> [k \in 1..w |-> <<>>],
                    worker_result_queue |-> <<>>, data_queue |-> <<>>,
                    stash |-> {}, tasks_outstanding |-> 0,
                    delivered |-> <<>>]

\* _try_put_index: the next index batch of the sampler, if there is one,
\* goes to the next worker's index queue under the number send_idx
TryPutIndex(L) ==
    IF L.send_idx >= Len(L.batches) THEN L
    ELSE [L EXCEPT
            !.index_queues[L.next_worker] =
                Append(@, [idx |-> L.send_idx,
                           index |-> L.batches[L.send_idx + 1]]),
            !.next_worker = (L.next_worker % L.num_workers) + 1,
            !.tasks_outstanding = @ + 1,
            !.send_idx = @ + 1]

RECURSIVE Prime(_, _)
\* for _ in range(2 * num_workers): _try_put_index()
Prime(L, k) == IF k = 0 THEN L ELSE Prime(TryPutIndex(L), k - 1)

\* iter(train_loader): new workers and queues, a new pass of the sampler,
\* and the first 2 * num_workers index batches handed out
LoaderIter ==
    /\ loader.on
    /\ ~loader.iterating
    /\ loader.passes < MaxEpochs
    /\ LET pass == NewPass(loader.rng, loader.n, loader.batch_size)
           L == [loader EXCEPT
                   !.iterating = TRUE,
                   !.rng = pass.rng,
                   !.batches = pass.batches,
                   !.send_idx = 0, !.rcvd_idx = 0, !.next_worker = 1,
                   !.index_queues = [k \in 1..loader.num_workers |-> <<>>],
                   !.worker_result_queue = <<>>, !.data_queue = <<>>,
                   !.stash = {}, !.tasks_outstanding = 0,
                   !.delivered = <<>>]
       IN  loader' = Prime(L, 2 * loader.num_workers)
    /\ UNCHANGED <<training, sampler, twin, second_run, game>>

\* _worker_loop: take a task from the own index queue, fetch and collate
\* its samples, put the batch with its number on the result queue
WorkerLoop(w) ==
    /\ loader.on
    /\ loader.iterating
    /\ w \in 1..loader.num_workers
    /\ loader.index_queues[w] # <<>>
    /\ LET task == Head(loader.index_queues[w]) IN
       loader' = [loader EXCEPT
                    !.index_queues[w] = Tail(@),
                    !.worker_result_queue =
                        Append(@, [idx |-> task.idx, data |-> task.index])]
    /\ UNCHANGED <<training, sampler, twin, second_run, game>>

\* _pin_memory_loop (pin_memory=True): one batch from the workers' result
\* queue to the data queue
PinMemoryLoop ==
    /\ loader.on
    /\ loader.iterating
    /\ loader.worker_result_queue # <<>>
    /\ loader' = [loader EXCEPT
                    !.worker_result_queue = Tail(@),
                    !.data_queue = Append(@, Head(loader.worker_result_queue))]
    /\ UNCHANGED <<training, sampler, twin, second_run, game>>

\* _process_data: count the batch, hand out one more index batch, and
\* return the batch to the loop
ProcessData(L, data) ==
    LET M == TryPutIndex([L EXCEPT !.rcvd_idx = @ + 1])
    IN  [M EXCEPT !.delivered = Append(@, data)]

Stashed(L) == {t \in L.stash : t.idx = L.rcvd_idx}

\* _next_data, the batch awaited is already there: it arrived early
NextFromStash ==
    /\ loader.on
    /\ loader.iterating
    /\ Stashed(loader) # {}
    /\ \E t \in Stashed(loader) :
          loader' = ProcessData([loader EXCEPT !.stash = @ \ {t}], t.data)
    /\ UNCHANGED <<training, sampler, twin, second_run, game>>

\* a loop that takes whatever batch arrives first
InAnyOrder(idx, rcvd_idx) == TRUE

\* idx != self._rcvd_idx decides between keeping and returning
InOrder(idx, rcvd_idx) == idx = rcvd_idx

\* _next_data, the batch awaited is not there: take the next batch of the
\* data queue; return it if it is the one awaited, keep it if not
NextGet ==
    /\ loader.on
    /\ loader.iterating
    /\ Stashed(loader) = {}
    /\ loader.rcvd_idx < loader.send_idx
    /\ loader.data_queue # <<>>
    /\ LET got == Head(loader.data_queue)
           L == [loader EXCEPT !.data_queue = Tail(@),
                               !.tasks_outstanding = @ - 1]
       IN  IF InOrder(got.idx, loader.rcvd_idx)
           THEN loader' = ProcessData(L, got.data)
           ELSE loader' = [L EXCEPT !.stash = @ \cup {got}]
    /\ UNCHANGED <<training, sampler, twin, second_run, game>>

\* _next_data, nothing is awaited any more: StopIteration, workers shut down
NextStop ==
    /\ loader.on
    /\ loader.iterating
    /\ Stashed(loader) = {}
    /\ loader.rcvd_idx >= loader.send_idx
    /\ loader' = [loader EXCEPT !.iterating = FALSE, !.passes = @ + 1]
    /\ UNCHANGED <<training, sampler, twin, second_run, game>>

LoaderNext ==
    \/ LoaderIter
    \/ \E w \in 1..MaxWorkers : WorkerLoop(w)
    \/ PinMemoryLoop
    \/ NextFromStash
    \/ NextGet
    \/ NextStop

LoaderSpec == LoaderInit /\ [][LoaderNext]_vars

\* C8: with batch materialisation spread over several prefetching workers
\* that finish in any interleaving, the loop receives the batches of an
\* epoch in exactly the order of the sampler's sequence for that epoch: no
\* batch out of order, twice, or dropped.
C8_DeliveredInSamplerOrder ==
    loader.on =>
       /\ Len(loader.delivered) <= Len(loader.batches)
       /\ loader.delivered = SubSeq(loader.batches, 1, Len(loader.delivered))
       /\ (~loader.iterating /\ loader.passes > 0) =>
             loader.delivered = loader.batches

\* in a second pass, a batch that arrived early is kept while the loop has
\* already received earlier ones
C8_Witness ==
    /\ loader.on
    /\ loader.iterating
    /\ loader.passes >= 1
    /\ loader.num_workers >= 2
    /\ loader.stash # {}
    /\ Len(loader.delivered) >= 1
    /\ Len(loader.batches) > 2 * loader.num_workers

Forwarded == pc \in {"Criterion", "Backward", "Step", "AddLoss"}

\* C12: for every batch of shape (N, 784) with N >= 1, including a short
\* final batch, the forward output has shape (N, 784), the widths in
\* between being 784, 128, 128, 128, 784; and the evaluation cell, which
\* takes only the first batch of 10 samples (indices 0..9, unshuffled) of
\* the held-out set, returns a tensor of shape (10, 784).
C12_ForwardKeepsShape ==
    /\ Forwarded =>
          LET N == Len(batch_idx) IN
          /\ N >= 1
          /\ shapes.batch_features = <<N, 784>>
          /\ shapes.activations =
                <<(<<N, 128>>), (<<N, 128>>), (<<N, 128>>), (<<N, 784>>)>>
          /\ Len(Outputs(acts)) = N
    /\ reconstruction # <<>> =>
          /\ test_examples = [i \in 1..10 |-> Fin(cfg.test_dataset[i])]
          /\ shapes.reconstruction = <<10, 784>>
          /\ Len(reconstruction) = 10

\* the forward pass of a short final batch has run, and the evaluation
\* cell has run on a held-out set of more than 10 samples that differ
C12_Witness ==
    /\ Forwarded
    /\ sampler_iter = <<>>
    /\ Len(batch_idx) < cfg.batch_size
    /\ reconstruction # <<>>
    /\ Len(cfg.test_dataset) > 10
    /\ \E i, j \in 1..10 : cfg.test_dataset[i] # cfg.test_dataset[j]

(* --------------------------- order of a batch ------------------------- *)
\* the statements of one batch, in the order of the cell
BatchOrder == <<"ZeroGrad", "Forward", "Criterion", "Backward", "Step",
                "AddLoss", "ForBatch">>

\* the batches whose loss was added, over all epochs
BatchesDone == Len(SelectSeq(events, LAMBDA ev : ev.kind = "batch"))

\* C13: within every batch the loop performs, in this order, forward,
\* loss, backward, then exactly one optimizer step, then the addition of
\* the batch loss to the accumulator; the moment estimates start at zero and
\* are never reset at an epoch boundary, and the step counter grows by
\* exactly 1 per batch, so that at Completed it equals epochs times the
\* number of batches per epoch.
C13_OneStepPerBatchInOrder ==
    /\ [](step = 0 => \A p \in ParamSet :
                         exp_avg[p] = Fin(0) /\ exp_avg_sq[p] = Fin(0))
    /\ [](step = BatchesDone + (IF pc = "AddLoss" THEN 1 ELSE 0))
    /\ [](pc = "Completed" => step = cfg.epochs * NumBatches)
    /\ [][/\ \A i \in 1..(Len(BatchOrder) - 1) :
                (pc = BatchOrder[i] /\ pc' # pc) => pc' = BatchOrder[i + 1]
          /\ acts' # acts => pc = "Forward"
          /\ train_loss' # train_loss => pc = "Criterion"
          /\ step' # step => pc = "Step" /\ step' = step + 1
          /\ loss'.sum # loss.sum => pc \in {"AddLoss", "ForEpoch"}
          /\ pc # "Step" => UNCHANGED <<exp_avg, exp_avg_sq, step>>]_vars

\* a completed run of several epochs of several batches, whose moment
\* estimates are not zero
C13_Witness ==
    /\ pc = "Completed"
    /\ cfg.epochs >= 2
    /\ NumBatches >= 2
    /\ step >= 4
    /\ \E p \in ParamSet : exp_avg_sq[p] # Fin(0)

(* --------------------------- the guessing game ------------------------ *)
min == 1
max == 100
playAgain == "Play Again"
allowedNumGuesses == 10

RandomGrain == 4    \* the values of Math.random() tried: k / RandomGrain
MaxGuesses == 12    \* guesses the counting player makes in one game

\* the characters of the texts, with the digits in the order of their values
DigitChars == <<"0", "1", "2", "3", "4", "5", "6", "7", "8", "9",
                "a", "b", "c", "d", "e", "f">>

IsDigit(c, radix) == \E i \in 1..radix : DigitChars[i] = c
DigitValue(c) == (CHOOSE i \in 1..Len(DigitChars) : DigitChars[i] = c) - 1

RECURSIVE Decimal(_)
\* String(n) of an integer n
Decimal(n) ==
    IF n < 0 THEN <<"-">> \o Decimal(-n)
    ELSE IF n < 10 THEN <<DigitChars[n + 1]>>
    ELSE Decimal(n \div 10) \o <<DigitChars[(n % 10) + 1]>>

RECURSIVE TrimStart(_)
TrimStart(s) == IF s # <<>> /\ Head(s) = " " THEN TrimStart(Tail(s)) ELSE s

RECURSIVE ParseDigits(_, _, _, _)
\* the longest prefix of digits of the radix; NaN when there is none
ParseDigits(s, radix, acc, any) ==
    IF s # <<>> /\ IsDigit(Head(s), radix)
    THEN ParseDigits(Tail(s), radix, acc * radix + DigitValue(Head(s)), TRUE)
    ELSE IF any THEN Fin(acc) ELSE NaN

\* parseInt(string): leading blanks skipped, a sign, 0x for radix 16, then
\* the digits up to the first character that is none
parseInt(s) ==
    LET t == TrimStart(s)
        signed == t # <<>> /\ Head(t) \in {"-", "+"}
        u == IF signed THEN Tail(t) ELSE t
        hex == Len(u) >= 2 /\ u[1] = "0" /\ u[2] = "x"
        r == IF hex THEN ParseDigits(Tail(Tail(u)), 16, 0, FALSE)
             ELSE ParseDigits(u, 10, 0, FALSE)
    IN  IF IsNaN(r) THEN NaN
        ELSE IF signed /\ Head(t) = "-" THEN Fin(-Num(r)) ELSE r

\* a < b and a > b of JavaScript numbers: false when one is NaN
Less(a, b) == ~IsNaN(a) /\ ~IsNaN(b) /\ Num(a) < Num(b)
Greater(a, b) == ~IsNaN(a) /\ ~IsNaN(b) /\ Num(a) > Num(b)

\* prevGuesses.includes(guess): SameValueZero, which finds NaN
Includes(list, v) == \E i \in 1..Len(list) : list[i] = v

\* String(v) of a number
NumberText(v) == IF IsNaN(v) THEN <<"N", "a", "N">> ELSE Decimal(Num(v))

RECURSIVE Join(_)
\* prevGuesses.join(", ")
Join(list) ==
    IF list = <<>> THEN <<>>
    ELSE IF Len(list) = 1 THEN NumberText(list[1])
    ELSE NumberText(Head(list)) \o <<",", " ">> \o Join(Tail(list))

NoneText == <<"(", "N", "o", "n", "e", ")">>

\* Math.floor(Math.random() * (max - min + 1)) + min, for Math.random()
\* returning k / RandomGrain
getRandomInteger(lo, hi, k) == ((k * (hi - lo + 1)) \div RandomGrain) + lo

\* init(), with the input field as it is
init(G, k) ==
    [G EXCEPT !.num = getRandomInteger(min, max, k),
              !.prevGuesses = <<>>,
              !.resultText = "(Result will appear here)",
              !.guessCount = allowedNumGuesses,
              !.guessList = NoneText,
              !.submitBtn = "Submit"]

\* the page once the script has run: init() at its end, the field empty
GameLoaded(k) ==
    init([on |-> TRUE, num |-> 0, prevGuesses |-> <<>>, resultText |-> "",
          numInput |-> <<>>, submitBtn |-> "", guessCount |-> 0,
          guessList |-> <<>>, last |-> "load"], k)

\* the texts a player types
Typed ==
    {Decimal(getRandomInteger(min, max, k)) : k \in 0..(RandomGrain - 1)}
    \cup {Decimal(max), Decimal(max + 1), Decimal(min - 1), Decimal(-5)}
    \cup {<<>>, <<"a">>, <<" ", "1">>, <<"1", "0", "0", "x">>,
          <<"0", "x", "6", "4">>, <<"1", "0", "0", ".", "9">>}

GameInit ==
    /\ TrainingOff
    /\ sampler = SamplerOff
    /\ loader = LoaderOff
    /\ twin = TwinOff
    /\ \E k \in 0..(RandomGrain - 1) : game = GameLoaded(k)

\* the player changes the input field
Type ==
    /\ game.on
    /\ \E t \in Typed : game' = [game EXCEPT !.numInput = t]
    /\ UNCHANGED <<training, sampler, loader, twin, second_run>>

\* a player who counts upwards: the next number, or the last one again
TypeCounting ==
    /\ game.on
    /\ Len(game.prevGuesses) < MaxGuesses
    /\ \E n \in {Len(game.prevGuesses), Len(game.prevGuesses) + 1} :
          game' = [game EXCEPT !.numInput = Decimal(n)]
    /\ UNCHANGED <<training, sampler, loader, twin, second_run>>

\* a label that never compares equal
PlayAgainMisspelt(text) == text = "Play again"

\* submitBtn.innerText === playAgain
PlayAgainPressed(text) == text = playAgain

\* a rejection that records the guess all the same
RejectAndRecord(G, text) ==
    [G EXCEPT !.resultText = text, !.numInput = <<>>, !.last = "rejected",
              !.prevGuesses = Append(@, parseInt(G.numInput))]

\* the two early returns: the text, and the field cleared
Reject(G, text) ==
    [G EXCEPT !.resultText = text, !.numInput = <<>>, !.last = "rejected"]

\* the rest of submit: the verdict, and the guess recorded and displayed
Accept(G, guess) ==
    LET won == ~Less(guess, Fin(G.num)) /\ ~Greater(guess, Fin(G.num))
        text == IF Less(guess, Fin(G.num)) THEN "Your number is too low."
                ELSE IF Greater(guess, Fin(G.num))
                     THEN "Your number is too high."
                     ELSE "You win!"
        list == Append(G.prevGuesses, guess)
    IN  [G EXCEPT !.submitBtn = IF won THEN playAgain ELSE @,
                  !.resultText = text,
                  !.numInput = <<>>,
                  !.prevGuesses = list,
                  !.guessList = Join(list),
                  !.guessCount = allowedNumGuesses - Len(list),
                  !.last = IF won THEN "win" ELSE "guess"]

\* submit()
Submit ==
    /\ game.on
    /\ IF PlayAgainPressed(game.submitBtn)
       THEN \E k \in 0..(RandomGrain - 1) :
               game' = [init(game, k) EXCEPT !.last = "init"]
       ELSE LET guess == parseInt(game.numInput) IN
            IF Includes(game.prevGuesses, guess)
            THEN game' = Reject(game, "You've already guessed that number!")
            ELSE IF Less(guess, Fin(min)) \/ Greater(guess, Fin(max))
                 THEN game' = Reject(game,
                        "Your guess must be more than 1 and less than 100.")
                 ELSE game' = Accept(game, guess)
    /\ UNCHANGED <<training, sampler, loader, twin, second_run>>

GameNext == Type \/ Submit
GameSpec == GameInit /\ [][GameNext]_vars

CountingNext == TypeCounting \/ Submit
CountingSpec == GameInit /\ [][CountingNext]_vars

(* --------------------- properties of the game ------------------------- *)
\* submit has just reported a win
WinReported == game.resultText = "You win!" /\ game.submitBtn = playAgain

\* C14: submit reports a win (the result text "You win!" and the button
\* relabelled "Play Again") only when the parsed guess, the one it has
\* just recorded, is an integer equal to the secret number num; an empty
\* or non-numeric input, whose parse yields no number, never wins.
C14_WinOnlyOnSecret ==
    (game.on /\ WinReported) =>
        /\ game.prevGuesses # <<>>
        /\ Last(game.prevGuesses) = Fin(game.num)

\* C15: the number of guesses recorded in prevGuesses for the current game
\* is at most allowedNumGuesses (10), and the displayed remaining count is
\* never negative.
C15_AtMostAllowedGuesses ==
    game.on =>
        /\ Len(game.prevGuesses) <= 10
        /\ game.guessCount >= 0

\* C16: prevGuesses contains no value twice and every value in it is an
\* integer in [1, 100]; and the secret number num is an integer in [1, 100].
C16_GuessesDistinctInRange ==
    game.on =>
        /\ \A i, j \in 1..Len(game.prevGuesses) :
              game.prevGuesses[i] = game.prevGuesses[j] => i = j
        /\ \A i \in 1..Len(game.prevGuesses) :
              /\ ~IsNaN(game.prevGuesses[i])
              /\ Num(game.prevGuesses[i]) \in 1..100
        /\ game.num \in 1..100

\* the guess in the field repeats an earlier guess of the current game
Repeats == \E i \in 1..Len(game.prevGuesses) :
              game.prevGuesses[i] = parseInt(game.numInput)

\* the guess in the field is a number outside [min, max]
Outside ==
    LET g == parseInt(game.numInput)
    IN  ~IsNaN(g) /\ (Num(g) < 1 \/ Num(g) > 100)

\* C17: a submit whose guess is rejected, because it repeats an earlier
\* guess of the current game or lies outside [min, max], leaves prevGuesses,
\* the secret number, the displayed guess list, the displayed remaining
\* count and the button label unchanged; it changes only the result text
\* and clears the input field.
C17_RejectionFrame ==
    [][(game.on /\ Submit /\ game.submitBtn # "Play Again"
           /\ (Repeats \/ Outside)) =>
          /\ game'.prevGuesses = game.prevGuesses
          /\ game'.num = game.num
          /\ game'.guessList = game.guessList
          /\ game'.guessCount = game.guessCount
          /\ game'.submitBtn = game.submitBtn
          /\ game'.numInput = <<>>
          /\ game'.resultText \in
                {"You've already guessed that number!",
                 "Your guess must be more than 1 and less than 100."}]_vars

\* a repeated guess was rejected in a game with several guesses recorded
C17_Witness ==
    /\ game.on
    /\ game.last = "rejected"
    /\ game.resultText = "You've already guessed that number!"
    /\ Len(game.prevGuesses) >= 2
    /\ game.submitBtn = "Submit"

\* C18: once a win has set the button to "Play Again", no further guess is
\* recorded for that game: the next submit only re-initialises the game
\* (prevGuesses emptied, remaining count back to 10, guess list "(None)",
\* button back to "Submit", a fresh secret number) and does not evaluate the
\* input as a guess; and the button is "Play Again" only in states reached
\* by a win and not yet followed by a submit.
C18_PlayAgainOnlyRestarts ==
    /\ []((game.on /\ game.submitBtn = "Play Again") => game.last = "win")
    /\ [][(game.on /\ game.submitBtn = "Play Again") =>
             /\ game'.prevGuesses \in {game.prevGuesses, <<>>}
             /\ Submit =>
                   /\ game'.prevGuesses = <<>>
                   /\ game'.guessCount = 10
                   /\ game'.guessList = NoneText
                   /\ game'.submitBtn = "Submit"
                   /\ game'.num \in 1..100
                   /\ game'.resultText = "(Result will appear here)"
                   /\ game'.numInput = game.numInput
                   /\ game'.last = "init"]_vars

\* a game was won on the third guess or later, and Play Again was pressed
\* with a number in the input field, which started a new game
C18_Witness ==
    /\ game.on
    /\ game.last = "init"
    /\ game.prevGuesses = <<>>
    /\ game.numInput # <<>>
    /\ ~IsNaN(parseInt(game.numInput))

====
